---- MODULE Spec2Model ----
(***************************************************************************)
(* A model of KEngine: the dependency-driven calculation network of        *)
(* kengine/performance.py (Calculable, Component, Engine), the engine      *)
(* assemblies of kengine/engines.py and the Newton-Raphson driver of       *)
(* kengine/solver.py.                                                      *)
(*                                                                         *)
(* Python runs every call chain synchronously on one thread, so a public   *)
(* call (make_dirty, update, component[name] = value, ...) is one atomic   *)
(* step of the model; the recursion inside it is a RECURSIVE operator      *)
(* that follows the code statement by statement.                           *)
(***************************************************************************)
EXTENDS Integers, Sequences, FiniteSets, TLC

VARIABLES
    kind,        \* class of every Calculable object of the network
    ports,       \* the stations, ambient and shaft each component holds
    dependents,  \* Calculable.dependents : node -> list of nodes
    precedents,  \* Calculable.precedents : node -> list of nodes
    dirty,       \* Calculable.dirty      : node -> BOOLEAN
    attributes,  \* Component.attributes  : node -> (name -> value)
    val,         \* the computed fields: Station.p/t/w, Environment.attributes,
                 \* Shaft.power, Nozzle.vj/athroat/throat_ps, Engine.attributes
    out,         \* what the last EngineAssembly.calculate returned
    solver,      \* the Solver: its settings and the locals of solve()
    registry,    \* Engine.components, Engine.nozzles and Engine.intake
    calls,       \* the update() calls of the last public call, in order
    log,         \* the calculate() calls of the last public call, in order
    err,         \* the exception the last public call ended with, or "none"
    lastop,      \* the last public call: its name, its receiver, the
                 \* parameter name written, the value when the write was
                 \* accepted, and whether the call started from the state
                 \* its claim is about
    before       \* dirty and attributes as they were when that call began

vars == <<kind, ports, dependents, precedents, dirty, attributes, val, out,
          solver, registry, calls, log, err, lastop, before>>

(***************************************************************************)
(* Bounds of the generic network.                                          *)
(***************************************************************************)
NumNodes == 3
MaxVal == 1

Nodes == 1..NumNodes
Values == 0..MaxVal
\* the parameter names a caller may write: one declared, one not
ParamNames == {"PR", "XX"}
\* the nodes constructed with attributes {'PR': 0}; the others are constructed
\* with the default, empty, attributes.  __setitem__ never reads the
\* precedents of its component, so one parameterised node, over every shape
\* of the graph below it, covers the writes.
Parameterised == {1}

(***************************************************************************)
(* Helpers on lists.                                                       *)
(***************************************************************************)
Range(seq) == {seq[i] : i \in 1..Len(seq)}

RECURSIVE SortedSeq(_)
SortedSeq(S) ==
    IF S = {} THEN <<>>
    ELSE LET m == CHOOSE x \in S : \A y \in S : x <= y
         IN  <<m>> \o SortedSeq(S \ {m})

Reverse(seq) == [i \in 1..Len(seq) |-> seq[Len(seq) + 1 - i]]

Count(seq, x) == Cardinality({i \in 1..Len(seq) : seq[i] = x})

(***************************************************************************)
(* Calculable: the evaluation state threaded through one public call.      *)
(*   s.dirty : the flags,                                                  *)
(*   s.attributes, s.val : the parameters and the computed fields,         *)
(*   s.calls : the nodes whose update() has been entered, in order,        *)
(*   s.log   : the calculate() calls so far, each with the flags it ran    *)
(*             under,                                                      *)
(*   s.err   : the exception being propagated, or "none".                  *)
(***************************************************************************)
RECURSIVE make_dirty(_, _)
RECURSIVE make_dirty_dependents(_, _, _)
RECURSIVE update(_, _)
RECURSIVE update_dependents(_, _, _)

\* Calculable.make_dirty without the loop over the dependents.
make_dirty_self_only(d, n) ==
    [d EXCEPT ![n] = TRUE]

\* Calculable.make_dirty with the recursion cut at a node that is already
\* dirty.
make_dirty_shortcut(d, n) ==
    IF d[n] THEN d ELSE make_dirty_dependents([d EXCEPT ![n] = TRUE], n, 1)

\* Calculable.make_dirty: self.dirty = True, then every dependent in turn.
make_dirty(d, n) ==
    make_dirty_dependents([d EXCEPT ![n] = TRUE], n, 1)

\* the loop "for d in self.dependents: d.make_dirty()" from index i on
make_dirty_dependents(d, n, i) ==
    IF i > Len(dependents[n]) THEN d
    ELSE make_dirty_dependents(make_dirty(d, dependents[n][i]), n, i + 1)

(***************************************************************************)
(* The physical laws.  A real quantity is abstracted to the set of facts   *)
(* it was computed from: a fact <<object, name, value>> is a parameter     *)
(* read or a field set by a constructor.  Arithmetic on quantities is the  *)
(* union of their facts, so two quantities are equal in the model when     *)
(* they were computed from the same parameters and fields.  Mass flow,     *)
(* which a Compressor, a Combustor and a Turbine copy from inlet to exit,  *)
(* is kept as a number: it is the divisor in Turbine.calculate.  The       *)
(* number is a fraction num/den, since a Splitter divides a flow by its    *)
(* bypass ratio plus one.                                                  *)
(***************************************************************************)
Fact(n, name, v) == {<<n, name, v>>}
Arith(args) == UNION args
Flow(w) == {<<"", "w", w>>}
Rat(n) == [num |-> n, den |-> 1]

SetStation(s, st, p, t, w) ==
    [s EXCEPT !.val.stn[st] = [p |-> p, t |-> t, w |-> w]]

\* Environment.calculate: MACH = v0 / (gamma*R*t)**0.5 when v0 is present,
\* else v0 = MACH * (gamma*R*t)**0.5 when MACH is present, else an exception.
\* The temperature of the environment is a field a constructor or the client
\* has set; the division raises when it is zero.
Environment_calculate(s, n) ==
    LET a == s.val.env
        t == s.val.stn[n].t
    IN  IF "v0" \in DOMAIN a
        THEN IF t = Fact(n, "t", 0)
             THEN [s EXCEPT !.err = "ZeroDivisionError"]
             ELSE [s EXCEPT !.val.env = ("MACH" :> Arith({a["v0"], t})) @@ a]
        ELSE IF "MACH" \in DOMAIN a
        THEN [s EXCEPT !.val.env = ("v0" :> Arith({a["MACH"], t})) @@ a]
        ELSE [s EXCEPT !.err = "Exception"]

\* Intake.calculate: exit p and t from the ambient station and the Mach
\* number, exit w from the parameter W.
Intake_calculate(s, n) ==
    LET amb == s.val.stn[ports[n].ambient]
    IN  IF "MACH" \notin DOMAIN s.val.env \/ "W" \notin DOMAIN s.attributes[n]
        THEN [s EXCEPT !.err = "KeyError"]
        ELSE SetStation(s, ports[n].exit,
                        Arith({amb.p, s.val.env["MACH"]}),
                        Arith({amb.t, s.val.env["MACH"]}),
                        Rat(s.attributes[n]["W"]))

\* Compressor.calculate: p1 = p0 * PR, t1 = t0 * PR ** (1-1/gamma), w1 = w0.
Compressor_calculate(s, n) ==
    LET in == s.val.stn[ports[n].inlet]
    IN  IF "PR" \notin DOMAIN s.attributes[n]
        THEN [s EXCEPT !.err = "KeyError"]
        ELSE LET PR == Fact(n, "PR", s.attributes[n]["PR"])
             IN  SetStation(s, ports[n].exit, Arith({in.p, PR}),
                            Arith({in.t, PR}), in.w)

\* Compressor.shaft_power: cp * w0 * (t1 - t0)
shaft_power(v, c) ==
    Arith({Flow(v.stn[ports[c].inlet].w), v.stn[ports[c].exit].t,
           v.stn[ports[c].inlet].t})

\* the list "[p.shaft_power() for p in self.precedents]"
demands(v, n) ==
    [i \in 1..Len(precedents[n]) |-> shaft_power(v, precedents[n][i])]

\* Shaft.calculate: self.power = sum of the demands; the sum is kept as the
\* list of its terms.
Shaft_calculate(s, n) ==
    [s EXCEPT !.val.power = (n :> demands(s.val, n)) @@ s.val.power]

\* Turbine.calculate: t1 = t0 - power/(cp*w0), p1 = p0 * (t1/t0)**k, w1 = w0.
\* The shaft has no power before its first calculate(); the division raises
\* when the mass flow is zero.
Turbine_calculate(s, n) ==
    LET in == s.val.stn[ports[n].inlet]
        sh == ports[n].shaft
    IN  IF sh \notin DOMAIN s.val.power
        THEN [s EXCEPT !.err = "AttributeError"]
        ELSE IF in.w.num = 0
        THEN [s EXCEPT !.err = "ZeroDivisionError"]
        ELSE LET power == Arith({s.val.power[sh][i] :
                                    i \in 1..Len(s.val.power[sh])})
                 t1 == Arith({in.t, power, Flow(in.w)})
             IN  SetStation(s, ports[n].exit, Arith({in.p, t1, in.t}), t1,
                            in.w)

\* Combustor.calculate: t1 = t0 + deltaT when deltaT is declared, else
\* t1 = TEX; p1 = p0, w1 = w0.
Combustor_calculate(s, n) ==
    LET in == s.val.stn[ports[n].inlet]
        a == s.attributes[n]
    IN  IF "deltaT" \in DOMAIN a
        THEN SetStation(s, ports[n].exit, in.p,
                        Arith({in.t, Fact(n, "deltaT", a["deltaT"])}), in.w)
        ELSE IF "TEX" \in DOMAIN a
        THEN SetStation(s, ports[n].exit, in.p, Fact(n, "TEX", a["TEX"]),
                        in.w)
        ELSE [s EXCEPT !.err = "KeyError"]

\* Combustor.fuel_flow: w0 * cp * (t1 - t0) / FHV
fuel_flow(s, n) ==
    Arith({Flow(s.val.stn[ports[n].inlet].w), s.val.stn[ports[n].exit].t,
           s.val.stn[ports[n].inlet].t,
           Fact(n, "FHV", s.attributes[n]["FHV"])})

\* Splitter.calculate: p and t pass to both exits; exit0.w = w0/(bpr+1),
\* exit1.w = w0*bpr/(bpr+1).  exit0.p and exit0.t are assigned before the
\* first division, which raises when bpr + 1 is zero.
Splitter_calculate(s, n) ==
    LET in == s.val.stn[ports[n].inlet]
        a == s.attributes[n]
        e0 == ports[n].exit0
    IN  IF "BPR" \notin DOMAIN a THEN [s EXCEPT !.err = "KeyError"]
        ELSE IF a["BPR"] + 1 = 0
        THEN [SetStation(s, e0, in.p, in.t, s.val.stn[e0].w) EXCEPT
                  !.err = "ZeroDivisionError"]
        ELSE SetStation(
                 SetStation(s, e0, in.p, in.t,
                            [num |-> in.w.num,
                             den |-> in.w.den * (a["BPR"] + 1)]),
                 ports[n].exit1, in.p, in.t,
                 [num |-> in.w.num * a["BPR"],
                  den |-> in.w.den * (a["BPR"] + 1)])

\* Nozzle.calculate: vj from t0 and p0/pamb, athroat from w0, t0 and p0,
\* throat_ps from p0.
Nozzle_calculate(s, n) ==
    LET in == s.val.stn[ports[n].inlet]
        pamb == s.val.stn[ports[n].ambient].p
    IN  [s EXCEPT !.val.nozzle =
            (n :> [vj |-> Arith({in.t, in.p, pamb}),
                   athroat |-> Arith({Flow(in.w), in.t, in.p}),
                   throat_ps |-> in.p]) @@ s.val.nozzle]

\* calculate() of node n, by the class of n; the call is recorded with the
\* flags it runs under.  Station and Propeller do nothing.
calculate(s, n) ==
    LET c == [s EXCEPT !.log = Append(s.log, [node |-> n, dirty |-> s.dirty])]
    IN  CASE kind[n] = "Environment" -> Environment_calculate(c, n)
          [] kind[n] = "Intake" -> Intake_calculate(c, n)
          [] kind[n] = "Compressor" -> Compressor_calculate(c, n)
          [] kind[n] = "Shaft" -> Shaft_calculate(c, n)
          [] kind[n] = "Turbine" -> Turbine_calculate(c, n)
          [] kind[n] = "Combustor" -> Combustor_calculate(c, n)
          [] kind[n] = "Nozzle" -> Nozzle_calculate(c, n)
          [] kind[n] = "Splitter" -> Splitter_calculate(c, n)
          [] OTHER -> c

\* "any([p.dirty for p in self.precedents])"
any_precedent_dirty(d, n) ==
    \E i \in 1..Len(precedents[n]) : d[precedents[n][i]]

\* entering update() of node n
enter(s, n) == [s EXCEPT !.calls = Append(s.calls, n)]

\* the body of update() once the node may proceed: self.dirty = False,
\* self.calculate(), then the loop over the dependents
proceed(s, n) ==
    update_dependents(calculate([s EXCEPT !.dirty[n] = FALSE], n), n, 1)

\* Calculable.update without the test on the precedents.
update_unblocked(s, n) ==
    IF ~s.dirty[n] THEN [enter(s, n) EXCEPT !.err = "AssertionError"]
    ELSE proceed(enter(s, n), n)

\* Calculable.update without the assertion.
update_unasserted(s, n) ==
    IF any_precedent_dirty(s.dirty, n) THEN enter(s, n)
    ELSE proceed(enter(s, n), n)

\* Calculable.update that notifies its dependents even when it is blocked.
update_eager(s, n) ==
    IF ~s.dirty[n] THEN [enter(s, n) EXCEPT !.err = "AssertionError"]
    ELSE IF any_precedent_dirty(s.dirty, n)
         THEN update_dependents(enter(s, n), n, 1)
    ELSE proceed(enter(s, n), n)

\* Calculable.update: assert self.dirty; if no precedent is dirty, become
\* clean, calculate, then update every dependent in turn.
update(s, n) ==
    IF ~s.dirty[n] THEN [enter(s, n) EXCEPT !.err = "AssertionError"]
    ELSE IF any_precedent_dirty(s.dirty, n) THEN enter(s, n)
    ELSE proceed(enter(s, n), n)

\* the loop "for d in self.dependents: d.update()" from index i on; an
\* exception raised by a dependent ends the loop.
update_dependents(s, n, i) ==
    IF s.err # "none" \/ i > Len(dependents[n]) THEN s
    ELSE update_dependents(update(s, dependents[n][i]), n, i + 1)

(***************************************************************************)
(* Component.__setitem__ on the flags d and the attributes a.              *)
(***************************************************************************)
\* Component.__setitem__ that stores the value without make_dirty().
Component_setitem_clean(d, a, n, name, value) ==
    IF name \notin DOMAIN a[n]
    THEN [dirty |-> d, attributes |-> a, err |-> "LookupError"]
    ELSE [dirty |-> d, attributes |-> [a EXCEPT ![n][name] = value],
          err |-> "none"]

\* Component.__setitem__ that calls make_dirty() before it looks the name up.
Component_setitem_dirty_first(d, a, n, name, value) ==
    IF name \notin DOMAIN a[n]
    THEN [dirty |-> make_dirty(d, n), attributes |-> a, err |-> "LookupError"]
    ELSE [dirty |-> make_dirty(d, n),
          attributes |-> [a EXCEPT ![n][name] = value], err |-> "none"]

\* Component.__setitem__: raise LookupError for an undeclared name; otherwise
\* self.make_dirty() and self.attributes[name] = value.
Component_setitem(d, a, n, name, value) ==
    IF name \notin DOMAIN a[n]
    THEN [dirty |-> d, attributes |-> a, err |-> "LookupError"]
    ELSE [dirty |-> make_dirty(d, n),
          attributes |-> [a EXCEPT ![n][name] = value], err |-> "none"]

(***************************************************************************)
(* The generic network: every acyclic graph over Nodes (an edge runs from  *)
(* a lower to a higher number).  Each node lists its dependents in         *)
(* ascending or in descending order.  Node `oneway`, if any, appends its   *)
(* dependents without registering itself as their precedent, as            *)
(* Splitter.connect_stations does.                                         *)
(***************************************************************************)
AllEdges == {e \in Nodes \X Nodes : e[1] < e[2]}

DependentsOf(E, asc, n) ==
    LET s == SortedSeq({e[2] : e \in {x \in E : x[1] = n}})
    IN  IF asc THEN s ELSE Reverse(s)

PrecedentsOf(E, oneway, n) ==
    SortedSeq({e[1] : e \in {x \in E : x[2] = n /\ x[1] # oneway}})

(***************************************************************************)
(* Sets of nodes used to state the claims.                                 *)
(***************************************************************************)
RECURSIVE Closure(_)
Closure(S) ==
    LET T == S \cup UNION {Range(dependents[x]) : x \in S}
    IN  IF T = S THEN S ELSE Closure(T)

\* n and its transitive dependents
TransitiveDependents(n) == Closure({n})

\* the dependents of n reached from n without passing through a dirty node
RECURSIVE ThroughFresh(_, _)
ThroughFresh(d, S) ==
    LET T == S \cup UNION {Range(dependents[x]) : x \in {y \in S : ~d[y]}}
    IN  IF T = S THEN S ELSE ThroughFresh(d, T)

\* some fresh transitive dependent of n is reached only through a dependent
\* that is already dirty
HiddenFresh(d, n) ==
    \E m \in TransitiveDependents(n) \ {n} :
        ~d[m] /\ m \notin ThroughFresh(d, Range(dependents[n]))

\* every link is recorded at both of its ends
Mutual ==
    \A a \in DOMAIN dirty, b \in DOMAIN dirty :
        (b \in Range(dependents[a])) <=> (a \in Range(precedents[b]))

AllFresh == \A n \in DOMAIN dirty : ~dirty[n]

LogNodes(l) == [i \in 1..Len(l) |-> l[i].node]

\* what a public call records of the state it starts from
Snapshot == [dirty |-> dirty, attributes |-> attributes]

\* the evaluation state at the entry of a public call
Entry ==
    [dirty |-> dirty, attributes |-> attributes, val |-> val,
     calls |-> <<>>, log |-> <<>>, err |-> "none"]

\* no station, no computed field, nothing returned
NoPorts == [inlet |-> "", exit |-> "", exit0 |-> "", exit1 |-> "",
            ambient |-> "", shaft |-> ""]
NoVal == [stn |-> <<>>, env |-> <<>>, power |-> <<>>, nozzle |-> <<>>,
          engine |-> <<>>]
NoOutput == <<>>
NoSolver == <<>>
NoRegistry == <<>>

\* Calculable.__init__ and Component.__init__ of every node
Init ==
    /\ kind = [n \in Nodes |-> "Propeller"]
    /\ ports = [n \in Nodes |-> NoPorts]
    /\ val = NoVal
    /\ out = NoOutput
    /\ solver = NoSolver
    /\ registry = NoRegistry
    /\ \E E \in SUBSET AllEdges, asc \in BOOLEAN, oneway \in Nodes \cup {0} :
          /\ dependents = [n \in Nodes |-> DependentsOf(E, asc, n)]
          /\ precedents = [n \in Nodes |-> PrecedentsOf(E, oneway, n)]
    /\ dirty = [n \in Nodes |-> TRUE]
    /\ attributes = [n \in Nodes |->
                        [x \in (IF n \in Parameterised THEN {"PR"} ELSE {}) |-> 0]]
    /\ calls = <<>>
    /\ log = <<>>
    /\ err = "none"
    /\ lastop = [op |-> "init", node |-> 0, name |-> "", value |-> 0,
                 armed |-> FALSE]
    /\ before = [dirty |-> dirty, attributes |-> attributes]

\* a public call node.make_dirty()
MakeDirty(n) ==
    /\ dirty' = make_dirty(dirty, n)
    /\ calls' = <<>>
    /\ log' = <<>>
    /\ err' = "none"
    /\ lastop' = [op |-> "make_dirty", node |-> n, name |-> "", value |-> 0,
                  armed |-> HiddenFresh(dirty, n)]
    /\ before' = Snapshot
    /\ UNCHANGED <<registry, kind, ports, dependents, precedents, attributes, val, out, solver>>

\* a public call node.update()
Update(n) ==
    \E s \in {update(Entry, n)} :
        /\ dirty' = s.dirty
        /\ val' = s.val
        /\ calls' = s.calls
        /\ log' = s.log
        /\ err' = s.err
        /\ lastop' = [op |-> "update", node |-> n, name |-> "", value |-> 0,
                      armed |-> lastop.op = "setitem" /\ lastop.node = n
                                /\ lastop.armed]
        /\ before' = Snapshot
        /\ UNCHANGED <<registry, kind, ports, dependents, precedents, attributes, out,
                     solver>>

\* a public call component[name] = value
SetItem(n, name, value) ==
    \E r \in {Component_setitem(dirty, attributes, n, name, value)} :
        /\ dirty' = r.dirty
        /\ attributes' = r.attributes
        /\ err' = r.err
        /\ calls' = <<>>
        /\ log' = <<>>
        /\ lastop' = [op |-> "setitem", node |-> n, name |-> name,
                      value |-> IF name \in DOMAIN attributes[n]
                                THEN value ELSE 0,
                      armed |-> AllFresh /\ name \in DOMAIN attributes[n]]
        /\ before' = Snapshot
        /\ UNCHANGED <<registry, kind, ports, dependents, precedents, val, out, solver>>

Next ==
    \/ \E n \in Nodes : MakeDirty(n)
    \/ \E n \in Nodes : Update(n)
    \/ \E n \in Nodes, name \in ParamNames, value \in Values :
          SetItem(n, name, value)

Spec == Init /\ [][Next]_vars

(***************************************************************************)
(* Claims about the calculation network, checked under Spec.               *)
(***************************************************************************)

\* C1: in an acyclic graph whose links are mutually recorded and whose nodes
\* are all fresh, after a successful parameter write on X one call X.update()
\* raises nothing, runs calculate exactly once on X and on every transitive
\* dependent of X, on no other node, and leaves every node fresh.
C1_UpdateRecomputesEachDependentOnce ==
    (Mutual /\ lastop.op = "update" /\ lastop.armed) =>
        /\ err = "none"
        /\ \A m \in Nodes :
              Count(LogNodes(log), m) =
                  (IF m \in TransitiveDependents(lastop.node) THEN 1 ELSE 0)
        /\ AllFresh

\* C2: make_dirty() on N leaves N and every transitive dependent of N stale,
\* also those reached only through a dependent that was already stale, and
\* every other node keeps its flag.
C2_MakeDirtyReachesEveryDependent ==
    lastop.op = "make_dirty" =>
        \A m \in Nodes :
            dirty[m] = (m \in TransitiveDependents(lastop.node)
                        \/ before.dirty[m])

\* C2 witness: a make_dirty() that started with a fresh transitive dependent
\* behind an already-stale one, and left all of them stale.
C2_Witness ==
    /\ lastop.op = "make_dirty"
    /\ lastop.armed
    /\ \A m \in TransitiveDependents(lastop.node) : dirty[m]

\* every calculate() of the log ran with its own node fresh and every
\* precedent of that node fresh
CalculatedOnFreshPrecedents(l) ==
    \A i \in 1..Len(l) :
        /\ ~l[i].dirty[l[i].node]
        /\ \A p \in Range(precedents[l[i].node]) : ~l[i].dirty[p]

\* C3: a flag changes from stale to fresh only inside that node's own
\* update(), which then runs its calculate(), and only while every precedent
\* of the node is fresh; no calculate() runs while a precedent is stale.
C3_FreshOnlyInOwnUpdateOnFreshPrecedents ==
    /\ \A n \in Nodes :
          (before.dirty[n] /\ ~dirty[n]) =>
              /\ lastop.op = "update"
              /\ n \in Range(calls)
              /\ Count(LogNodes(log), n) = 1
    /\ CalculatedOnFreshPrecedents(log)

\* C3 witness: an update() that recomputed a node with precedents, one of
\* whose update() calls had first been blocked by a stale precedent.
C3_Witness ==
    /\ lastop.op = "update"
    /\ \E n \in Range(calls) :
          /\ Len(precedents[n]) > 0
          /\ Count(calls, n) = 2
          /\ Count(LogNodes(log), n) = 1

\* C4: update() on a fresh node fails with an assertion error, changes no
\* flag and runs no calculate().
C4_UpdateOnFreshNodeFails ==
    (lastop.op = "update" /\ ~before.dirty[lastop.node]) =>
        /\ err = "AssertionError"
        /\ dirty = before.dirty
        /\ log = <<>>
        /\ calls = <<lastop.node>>

\* C4 witness: a failed update() on a node that is fresh, among stale nodes.
C4_Witness ==
    /\ lastop.op = "update"
    /\ ~before.dirty[lastop.node]
    /\ err = "AssertionError"
    /\ \E m \in Nodes : dirty[m]

\* C5: update() on a stale node with a stale precedent is a no-op: the node
\* stays stale, it does not calculate, no dependent receives update(), and
\* no flag changes.
C5_BlockedUpdateIsNoOp ==
    (/\ lastop.op = "update"
     /\ before.dirty[lastop.node]
     /\ \E p \in Range(precedents[lastop.node]) : before.dirty[p]) =>
        /\ err = "none"
        /\ dirty = before.dirty
        /\ log = <<>>
        /\ calls = <<lastop.node>>

\* C5 witness: a blocked update() on a node that has a dependent whose own
\* precedents would have let it proceed.
C5_Witness ==
    /\ lastop.op = "update"
    /\ before.dirty[lastop.node]
    /\ \E p \in Range(precedents[lastop.node]) : before.dirty[p]
    /\ \E d \in Range(dependents[lastop.node]) :
          dirty[d] /\ ~any_precedent_dirty(dirty, d)

\* C6: a write component[name] = value of a declared name stores the value
\* and leaves the component and all its transitive dependents stale,
\* whatever their flags were.
C6_WriteStoresAndMarksStale ==
    (/\ lastop.op = "setitem"
     /\ lastop.name \in DOMAIN before.attributes[lastop.node]) =>
        /\ err = "none"
        /\ attributes[lastop.node][lastop.name] = lastop.value
        /\ \A m \in TransitiveDependents(lastop.node) : dirty[m]

\* C6 witness: a successful write of a new value on a component whose
\* transitive dependents were partly fresh and partly stale.
C6_Witness ==
    /\ lastop.op = "setitem"
    /\ lastop.name \in DOMAIN before.attributes[lastop.node]
    /\ before.attributes[lastop.node][lastop.name] # lastop.value
    /\ \E m \in TransitiveDependents(lastop.node) : before.dirty[m]
    /\ \E m \in TransitiveDependents(lastop.node) : ~before.dirty[m]

\* C7: a write of an undeclared name is rejected with a lookup error and
\* changes nothing: no parameter is added or modified, no flag changes.
C7_UndeclaredWriteRejected ==
    (/\ lastop.op = "setitem"
     /\ lastop.name \notin DOMAIN before.attributes[lastop.node]) =>
        /\ err = "LookupError"
        /\ attributes = before.attributes
        /\ dirty = before.dirty

\* C7 witness: a rejected write on a fresh component that has dependents and
\* declares another parameter.
C7_Witness ==
    /\ lastop.op = "setitem"
    /\ lastop.name \notin DOMAIN before.attributes[lastop.node]
    /\ DOMAIN before.attributes[lastop.node] # {}
    /\ ~before.dirty[lastop.node]
    /\ Len(dependents[lastop.node]) > 0

(***************************************************************************)
(* The TurboJet assembly of kengine/engines.py: the objects it creates     *)
(* and the links its constructor makes, in the order it makes them.  A     *)
(* link <<a, b>> appends b to a.dependents and a to b.precedents.          *)
(***************************************************************************)
EngineNodes ==
    {"ambient", "INTAKE", "HPC", "COMBUSTOR", "HPT", "NOZ", "HPSHAFT",
     "2", "3", "4", "5"}

TurboJet_kind ==
    [n \in EngineNodes |->
        CASE n = "ambient" -> "Environment"
          [] n = "INTAKE" -> "Intake"
          [] n = "HPC" -> "Compressor"
          [] n = "COMBUSTOR" -> "Combustor"
          [] n = "HPT" -> "Turbine"
          [] n = "NOZ" -> "Nozzle"
          [] n = "HPSHAFT" -> "Shaft"
          [] OTHER -> "Station"]

TurboJet_links ==
    << <<"ambient", "INTAKE">>,                      \* Engine.__setitem__
       <<"INTAKE", "2">>,                            \* connect_downstream
       <<"2", "HPC">>, <<"HPC", "3">>,               \* connect_stations
       <<"3", "COMBUSTOR">>, <<"COMBUSTOR", "4">>,
       <<"4", "HPT">>, <<"HPT", "5">>,
       <<"5", "NOZ">>,                               \* connect_upstream
       <<"HPSHAFT", "HPT">>,                         \* add_turbine
       <<"HPC", "HPSHAFT">> >>                       \* add_driven

TurboJet_ports ==
    [n \in EngineNodes |->
        CASE n = "INTAKE" -> [NoPorts EXCEPT !.ambient = "ambient",
                                             !.exit = "2"]
          [] n = "HPC" -> [NoPorts EXCEPT !.inlet = "2", !.exit = "3"]
          [] n = "COMBUSTOR" -> [NoPorts EXCEPT !.inlet = "3", !.exit = "4"]
          [] n = "HPT" -> [NoPorts EXCEPT !.inlet = "4", !.exit = "5",
                                          !.shaft = "HPSHAFT"]
          [] n = "NOZ" -> [NoPorts EXCEPT !.inlet = "5",
                                          !.ambient = "ambient"]
          [] OTHER -> NoPorts]

\* the parameters the components are constructed with
TurboJet_attributes ==
    [n \in EngineNodes |->
        CASE n = "INTAKE" -> [W |-> 1]
          [] n = "HPC" -> [PR |-> 40]
          [] n = "COMBUSTOR" -> [TEX |-> 1600, FHV |-> 45000000]
          [] OTHER -> <<>>]

\* Station.__init__ sets p, t and w to 0.0; the constructor of the assembly
\* then sets the environment to (30000.0, 300.0, 1.0).
TurboJet_stations ==
    [n \in {m \in EngineNodes : TurboJet_kind[m] \in {"Station", "Environment"}}
        |-> IF n = "ambient"
            THEN [p |-> Fact(n, "p", 30000), t |-> Fact(n, "t", 300),
                  w |-> Rat(1)]
            ELSE [p |-> Fact(n, "p", 0), t |-> Fact(n, "t", 0), w |-> Rat(0)]]

\* the dependents list the links leave at node n
DependentsFrom(links, n) ==
    LET own == SelectSeq(links, LAMBDA l : l[1] = n)
    IN  [i \in 1..Len(own) |-> own[i][2]]

\* the precedents list with Shaft.add_turbine not appending the shaft to the
\* precedents of the turbine.
PrecedentsFrom_unlinked_turbine(links, n) ==
    LET own == SelectSeq(links, LAMBDA l : l[2] = n /\ l[1] # "HPSHAFT")
    IN  [i \in 1..Len(own) |-> own[i][1]]

\* the precedents list the links leave at node n
PrecedentsFrom(links, n) ==
    LET own == SelectSeq(links, LAMBDA l : l[2] = n)
    IN  [i \in 1..Len(own) |-> own[i][1]]

\* the input aliases TurboJet.__init__ and TurboFan.__init__ add
TurboJet_input_aliases ==
    [HPCPR |-> <<"HPC", "PR">>, RIT |-> <<"COMBUSTOR", "TEX">>,
     FLOW |-> <<"INTAKE", "W">>]

TurboFan_input_aliases ==
    [HPCPR |-> <<"HPC", "PR">>, RIT |-> <<"COMBUSTOR", "TEX">>,
     BPR |-> <<"SPLITTER", "BPR">>, FLOW |-> <<"INTAKE", "W">>]

\* EngineAssembly.input_aliases of the engine at hand: those of a TurboFan,
\* those of a TurboJet, or none for an Engine that is not an assembly; and
\* the output aliases, which are the same for both assemblies
input_aliases ==
    IF "SPLITTER" \in DOMAIN kind THEN TurboFan_input_aliases
    ELSE IF "HPC" \in DOMAIN kind THEN TurboJet_input_aliases
    ELSE <<>>
output_aliases == {"SFC", "THRUST"}

\* the values a caller gives an input: the constructor's value or another
\* one for the pressure ratio and for the temperature, which the laws only
\* pass on; any value from zero up for the mass flow, which the turbine
\* divides by; the constructor's value or minus one for the bypass ratio,
\* to which the splitter adds one before it divides
InputValues(alias) ==
    CASE alias = "HPCPR" -> {40, 41}
      [] alias = "RIT" -> {1600, 1601}
      [] alias = "FLOW" -> Values
      [] alias = "BPR" -> {8, 0 - 1}

\* the input dictionaries: a value for some of the aliases
InputDicts ==
    UNION {{f \in [A -> UNION {InputValues(a) : a \in A}] :
                \A a \in A : f[a] \in InputValues(a)} :
           A \in SUBSET DOMAIN input_aliases}

(***************************************************************************)
(* Engine and EngineAssembly on the evaluation state s.                    *)
(***************************************************************************)
\* Engine.calculate_thrust: the sum over the nozzles of
\* inlet.w * (vj - v0), stored as attributes['THRUST'].
calculate_thrust(s) ==
    LET nozzles == {n \in DOMAIN kind : kind[n] = "Nozzle"}
    IN  IF "v0" \notin DOMAIN s.val.env
        THEN [s EXCEPT !.err = "KeyError"]
        ELSE IF \E n \in nozzles : n \notin DOMAIN s.val.nozzle
        THEN [s EXCEPT !.err = "AttributeError"]
        ELSE LET thrust ==
                    Arith({Arith({Flow(s.val.stn[ports[n].inlet].w),
                                  s.val.nozzle[n].vj, s.val.env["v0"]}) :
                           n \in nozzles})
             IN  [s EXCEPT !.val.engine = ("THRUST" :> thrust) @@ @]

\* Engine.calculate_attributes: FUEL_FLOW from the component registered as
\* COMBUSTOR, SFC = fuel_flow / THRUST.
calculate_attributes(s) ==
    IF "COMBUSTOR" \notin DOMAIN kind THEN [s EXCEPT !.err = "KeyError"]
    ELSE LET ff == fuel_flow(s, "COMBUSTOR")
             sfc == Arith({ff, s.val.engine["THRUST"]})
         IN  [s EXCEPT !.val.engine =
                          ("FUEL_FLOW" :> ff) @@ ("SFC" :> sfc) @@ @]

\* the last two statements of Engine.update; each runs unless an exception
\* is being propagated
Engine_update_thrust(s) ==
    IF s.err # "none" THEN s ELSE calculate_thrust(s)

Engine_update_attributes(s) ==
    IF s.err # "none" THEN s ELSE calculate_attributes(s)

\* Engine.update without environment.make_dirty().
Engine_update_without_make_dirty(s) ==
    Engine_update_attributes(Engine_update_thrust(update(s, "ambient")))

\* Engine.update: environment.make_dirty(), environment.update(), then the
\* thrust and the attributes.
Engine_update(s) ==
    Engine_update_attributes(Engine_update_thrust(
        update([s EXCEPT !.dirty = make_dirty(s.dirty, "ambient")],
               "ambient")))


\* EngineAssembly.set_input_alias: resolve the path of the alias and write
\* the parameter through Component.__setitem__.
set_input_alias(s, alias, value) ==
    LET path == input_aliases[alias]
        r == Component_setitem(s.dirty, s.attributes, path[1], path[2], value)
    IN  [s EXCEPT !.dirty = r.dirty, !.attributes = r.attributes,
                  !.err = r.err]

\* EngineAssembly.set_inputs: set_input_alias for every item of the
\* dictionary.  The aliases of an assembly name parameters of different
\* components and all are declared, so the order of the items has no effect;
\* the model takes them in the order of AliasOrder.
AliasOrder == <<"HPCPR", "RIT", "BPR", "FLOW">>

RECURSIVE set_inputs_from(_, _, _)
set_inputs_from(s, input_dict, i) ==
    IF s.err # "none" \/ i > Len(AliasOrder) THEN s
    ELSE IF AliasOrder[i] \notin DOMAIN input_dict
         THEN set_inputs_from(s, input_dict, i + 1)
    ELSE set_inputs_from(
             set_input_alias(s, AliasOrder[i], input_dict[AliasOrder[i]]),
             input_dict, i + 1)

set_inputs(s, input_dict) == set_inputs_from(s, input_dict, 1)

\* EngineAssembly.get_outputs as a dictionary: every output alias with the
\* engine attribute it names.
get_outputs(s) == [a \in output_aliases |-> s.val.engine[a]]

\* what a call that ends in state s returns: the outputs, or nothing when
\* it raises
returned(s) ==
    [s |-> s, out |-> IF s.err = "none" THEN get_outputs(s) ELSE NoOutput]

\* the second statement of EngineAssembly.calculate; it runs unless
\* set_inputs raised
EngineAssembly_calculate_update(s) ==
    IF s.err # "none" THEN s ELSE Engine_update(s)

\* EngineAssembly.calculate: set_inputs, update, return dict(get_outputs()).
EngineAssembly_calculate(s, input_dict) ==
    returned(EngineAssembly_calculate_update(set_inputs(s, input_dict)))

(***************************************************************************)
(* The engine specification: a TurboJet and the calls a client makes on    *)
(* the assembly: set_input_alias, update and calculate.                    *)
(***************************************************************************)
\* the state a call on the engine starts from, with what the call before it
\* returned or raised; it is recorded for the second of two calculate calls
\* with the same dictionary
Unobserved == <<>>

EngineSnapshot ==
    [dirty |-> dirty, attributes |-> attributes, val |-> val, out |-> out,
     err |-> err]

\* TurboJet.__init__
InitEngine ==
    /\ kind = TurboJet_kind
    /\ ports = TurboJet_ports
    /\ dependents = [n \in EngineNodes |-> DependentsFrom(TurboJet_links, n)]
    /\ precedents = [n \in EngineNodes |-> PrecedentsFrom(TurboJet_links, n)]
    /\ dirty = [n \in EngineNodes |-> TRUE]
    /\ attributes = TurboJet_attributes
    /\ val = [NoVal EXCEPT !.stn = TurboJet_stations,
                           !.env = [v0 |-> Fact("ambient", "v0", 0)]]
    /\ out = NoOutput
    /\ solver = NoSolver
    /\ registry = NoRegistry
    /\ calls = <<>>
    /\ log = <<>>
    /\ err = "none"
    /\ lastop = [op |-> "init", node |-> 0, name |-> "", value |-> 0,
                 armed |-> FALSE]
    /\ before = Unobserved

\* a public call engine.set_input_alias(alias, value)
SetInputAlias(alias, value) ==
    \E s \in {set_input_alias(Entry, alias, value)} :
        /\ dirty' = s.dirty
        /\ attributes' = s.attributes
        /\ err' = s.err
        /\ calls' = <<>>
        /\ log' = <<>>
        /\ lastop' = [op |-> "set_input_alias", node |-> 0, name |-> "",
                      value |-> 0, armed |-> FALSE]
        /\ before' = Unobserved
        /\ UNCHANGED <<registry, kind, ports, dependents, precedents, val, out, solver>>

\* a public call engine.update()
EngineUpdate ==
    \E s \in {Engine_update(Entry)} :
        /\ dirty' = s.dirty
        /\ val' = s.val
        /\ calls' = s.calls
        /\ log' = s.log
        /\ err' = s.err
        /\ lastop' = [op |-> "engine_update", node |-> 0, name |-> "",
                      value |-> 0, armed |-> FALSE]
        /\ before' = Unobserved
        /\ UNCHANGED <<registry, kind, ports, dependents, precedents, attributes, out,
                     solver>>

\* a public call engine.calculate(input_dict); armed when the call before it
\* was calculate with the same dictionary
Calculate(input_dict) ==
    \E r \in {EngineAssembly_calculate(Entry, input_dict)} :
        /\ dirty' = r.s.dirty
        /\ attributes' = r.s.attributes
        /\ val' = r.s.val
        /\ out' = r.out
        /\ calls' = r.s.calls
        /\ log' = r.s.log
        /\ err' = r.s.err
        /\ lastop' = [op |-> "calculate", node |-> 0, name |-> "",
                      value |-> input_dict,
                      armed |-> lastop.op = "calculate"
                                /\ lastop.value = input_dict]
        /\ before' = IF lastop.op = "calculate" /\ lastop.value = input_dict
                      THEN EngineSnapshot ELSE Unobserved
        /\ UNCHANGED <<registry, kind, ports, dependents, precedents, solver>>

NextEngine ==
    \/ \E alias \in DOMAIN input_aliases :
          \E value \in InputValues(alias) : SetInputAlias(alias, value)
    \/ EngineUpdate
    \/ \E input_dict \in InputDicts : Calculate(input_dict)

SpecEngine == InitEngine /\ [][NextEngine]_vars


(***************************************************************************)
(* Claims about the engine, checked under SpecEngine.                      *)
(***************************************************************************)
\* the call was a full recomputation cycle: Engine.update(), called by the
\* client or by EngineAssembly.calculate
FullCycle == lastop.op \in {"engine_update", "calculate"}

\* node n ran its calculate() before position i of the log
CalculatedBefore(n, i) == \E j \in 1..(i - 1) : log[j].node = n

SecondCalculate == lastop.op = "calculate" /\ lastop.armed

\* the engine is in the state the first of the two calls left
SameStateAsAfterFirst ==
    /\ dirty = before.dirty
    /\ attributes = before.attributes
    /\ val = before.val

\* C9 as stated: calling calculate twice in a row with identical inputs
\* completes both times without error and returns identical outputs, and the
\* state after the second call equals the state after the first.
C9_CalculateTwiceCompletes ==
    SecondCalculate =>
        /\ before.err = "none"
        /\ err = "none"
        /\ out = before.out
        /\ SameStateAsAfterFirst

\* C9: calling calculate twice in a row with identical inputs ends both
\* times in the same way, with identical outputs or with the same error, and
\* the state after the second call equals the state after the first.
C9_CalculateTwiceSameResult ==
    SecondCalculate =>
        /\ err = before.err
        /\ out = before.out
        /\ SameStateAsAfterFirst

\* C9 witness: a second calculate that returned outputs, for a dictionary
\* that gives every input and a pressure ratio other than the constructor's.
C9_Witness ==
    /\ SecondCalculate
    /\ err = "none"
    /\ DOMAIN out = output_aliases
    /\ DOMAIN lastop.value = DOMAIN input_aliases
    /\ lastop.value["HPCPR"] # 40


(***************************************************************************)
(* The Newton-Raphson driver of kengine/solver.py.  The wrapped object is  *)
(* any object with calculate(inputs) -> outputs: what an evaluation        *)
(* returns, and hence the errors and the corrections of a Newton step, is  *)
(* chosen freely.  Errors are counted in units of 1e-7 and an iterate is a *)
(* small number per variable.  One step of the model is one pass through   *)
(* the body of the loop of solve().                                        *)
(***************************************************************************)
iter_limit == 100
conv_crit == 10

\* the keys input_settings may have, and the names of the wrapped object
VarNames == {"x", "y"}
engine_outputs == {"z", "zz"}
engine_input_aliases == {"W"}
TargetNames == engine_outputs \cup engine_input_aliases

Iterates == 0..MaxVal
ErrorValues == {conv_crit - 1, conv_crit, 0 - conv_crit}

abs(x) == IF x < 0 THEN 0 - x ELSE x

\* Solver.isconverged that accepts an error equal to conv_crit.
isconverged_inclusive(errors) ==
    \A e \in DOMAIN errors : abs(errors[e]) <= conv_crit

\* Solver.isconverged: every error is below conv_crit in absolute value.
isconverged(errors) == \A e \in DOMAIN errors : abs(errors[e]) < conv_crit

\* the classes of the wrapped object: an EngineAssembly has the attribute
\* input_aliases and the method set_input_alias, a TestFunction has only
\* calculate
Wrapped == {"EngineAssembly", "TestFunction"}

\* the Solver and the locals of solve() when no call is running
Idle(isets, engine) ==
    [pc |-> "idle", isets |-> isets, engine |-> engine, targets |-> {},
     solver_targets |-> {},
     applied |-> {}, values |-> <<>>, errors |-> <<>>, iteration |-> 0,
     evals |-> 0, corrections |-> 0, ncalc |-> 0,
     last |-> [values |-> <<>>, perturbed |-> FALSE], outcome |-> "none"]

\* solve() up to the loop without the assertion on the numbers of solver
\* targets and variables.
solve_begin_unasserted(sv, targets) ==
    LET st == targets \ engine_input_aliases
        s0 == [Idle(sv.isets, sv.engine) EXCEPT !.targets = targets]
        s1 == [s0 EXCEPT !.solver_targets = st,
                         !.applied = targets \cap engine_input_aliases]
    IN  IF targets # {} /\ sv.engine = "TestFunction"
        THEN [s0 EXCEPT !.outcome = "AttributeError"]
        ELSE [s1 EXCEPT !.pc = "loop", !.values = [x \in sv.isets |-> 0]]

\* solve() up to the loop: the targets that are input aliases are applied
\* to the engine, the others are the solver targets; their number must be
\* the number of variables; the iterate starts at the start values.
\* Reading self.engine.input_aliases for the first target raises when the
\* wrapped object has no such attribute.
solve_begin(sv, targets) ==
    LET st == targets \ engine_input_aliases
        s0 == [Idle(sv.isets, sv.engine) EXCEPT !.targets = targets]
        s1 == [s0 EXCEPT !.solver_targets = st,
                         !.applied = targets \cap engine_input_aliases]
    IN  IF targets # {} /\ sv.engine = "TestFunction"
        THEN [s0 EXCEPT !.outcome = "AttributeError"]
        ELSE IF Cardinality(st) # Cardinality(sv.isets)
        THEN [s1 EXCEPT !.outcome = "AssertionError"]
        ELSE [s1 EXCEPT !.pc = "loop", !.values = [x \in sv.isets |-> 0]]

\* Solver.next_iteration: generate_jacobian evaluates the engine at the
\* current values and once per perturbed variable; tensorsolve raises for a
\* singular matrix and otherwise gives the corrections, which solve() adds
\* to the values before it counts the iteration.
next_iteration(sv, next, singular) ==
    LET s1 == [sv EXCEPT !.ncalc = @ + 1 + Cardinality(sv.isets),
                         !.last = [values |-> sv.values, perturbed |-> TRUE]]
    IN  IF singular
        THEN [s1 EXCEPT !.pc = "idle", !.outcome = "LinAlgError"]
        ELSE [s1 EXCEPT !.values = next, !.corrections = @ + 1,
                        !.iteration = @ + 1]

\* one pass through the body of "while True": raise when the iteration
\* count is above the limit; else evaluate the engine at the values, take
\* the error of every target, return when converged, else iterate.
loop_body(sv, errors, next, singular) ==
    IF sv.iteration > iter_limit
    THEN [sv EXCEPT !.pc = "idle", !.outcome = "Exception"]
    ELSE LET s1 == [sv EXCEPT !.ncalc = @ + 1, !.evals = @ + 1,
                              !.last = [values |-> sv.values,
                                        perturbed |-> FALSE]]
         IN  IF ~(sv.targets \subseteq engine_outputs)
             THEN [s1 EXCEPT !.pc = "idle", !.outcome = "KeyError"]
             ELSE IF isconverged(errors)
             THEN [s1 EXCEPT !.errors = errors, !.pc = "idle",
                             !.outcome = "returned"]
             ELSE next_iteration([s1 EXCEPT !.errors = errors], next,
                                 singular)

\* Solver.__init__ on an object that is not modelled further
InitSolver ==
    /\ kind = <<>>
    /\ ports = <<>>
    /\ dependents = <<>>
    /\ precedents = <<>>
    /\ dirty = <<>>
    /\ attributes = <<>>
    /\ val = NoVal
    /\ out = NoOutput
    /\ \E isets \in SUBSET VarNames, engine \in Wrapped :
          solver = Idle(isets, engine)
    /\ registry = NoRegistry
    /\ calls = <<>>
    /\ log = <<>>
    /\ err = "none"
    /\ lastop = [op |-> "init", node |-> 0, name |-> "", value |-> 0,
                 armed |-> FALSE]
    /\ before = Unobserved

\* a call solver.solve(targets), up to the loop
Solve(targets) ==
    /\ solver.pc = "idle"
    /\ solver' = solve_begin(solver, targets)
    /\ UNCHANGED <<registry, kind, ports, dependents, precedents, dirty, attributes,
                   val, out, calls, log, err, lastop, before>>

\* one pass through the loop of the running solve()
Iterate ==
    /\ solver.pc = "loop"
    /\ \E errors \in [solver.solver_targets -> ErrorValues],
          next \in [solver.isets -> Iterates], singular \in BOOLEAN :
          solver' = loop_body(solver, errors, next, singular)
    /\ UNCHANGED <<registry, kind, ports, dependents, precedents, dirty, attributes,
                   val, out, calls, log, err, lastop, before>>

NextSolver ==
    \/ \E targets \in SUBSET TargetNames : Solve(targets)
    \/ Iterate

SpecSolver == InitSolver /\ [][NextSolver]_vars

(***************************************************************************)
(* Claims about the solver, checked under SpecSolver.                      *)
(***************************************************************************)
\* C10: in one solve() call the number of iterations (baseline evaluation
\* plus convergence test) never exceeds the cap of 100, and no Newton
\* correction is applied after the 100th non-converged iteration, so at
\* most 99 corrections are applied.
C10_AtMostHundredIterations ==
    /\ solver.evals <= iter_limit
    /\ solver.corrections < iter_limit

\* solve() has been called at least once
Called == ~(solver.pc = "idle" /\ solver.outcome = "none")

\* C11: each non-converged iteration invokes the engine's calculate exactly
\* (number of free variables + 1) times: at the head of the loop the number
\* of calculate calls made so far is that number for every iteration
\* completed.
C11_VariablesPlusOneCallsPerIteration ==
    solver.pc = "loop" =>
        solver.ncalc = solver.iteration * (Cardinality(solver.isets) + 1)

\* C12: a target that is an input alias of the engine is applied and removed
\* from the unknown set: it is not counted against the number of variables,
\* it takes no part in the error vector, and a solve whose targets mix
\* direct inputs and solved outputs proceeds normally.
C12_DirectInputsLeaveTheUnknownSet ==
    (Called /\ solver.applied # {}) =>
        /\ (Cardinality(solver.solver_targets) = Cardinality(solver.isets))
               => solver.outcome # "AssertionError"
        /\ solver.outcome # "KeyError"
        /\ solver.evals > 0 => DOMAIN solver.errors = solver.solver_targets

C14_ReturnsOnlyConvergedIterate ==
    solver.outcome = "returned" =>
        /\ solver.last = [values |-> solver.values, perturbed |-> FALSE]
        /\ DOMAIN solver.errors = solver.targets
        /\ \A e \in DOMAIN solver.errors : abs(solver.errors[e]) < conv_crit

\* C14 witness: a solve() of two variables that returned after at least one
\* Newton correction had moved the iterate off the start values.
C14_Witness ==
    /\ solver.outcome = "returned"
    /\ Cardinality(solver.isets) = 2
    /\ solver.corrections > 0
    /\ \E x \in solver.isets : solver.values[x] # 0

\* the call of test2: a TestFunction, the variables x and y, the targets z
\* and zz
Test2Call ==
    /\ Called
    /\ solver.engine = "TestFunction"
    /\ solver.isets = {"x", "y"}
    /\ solver.targets = {"z", "zz"}

\* C15: the Solver can be driven on an object that exposes only calculate:
\* the solve() of test2 does not fail on the way to its first evaluation, so
\* that whenever it has ended, the TestFunction has been evaluated.
C15_SolveDrivesBareCalculate ==
    Test2Call =>
        /\ solver.outcome # "AttributeError"
        /\ solver.pc = "idle" => solver.ncalc > 0

(***************************************************************************)
(* Engine.__init__ and Engine.__setitem__: the registration of components  *)
(* under identifiers.  A client holds two Intake objects, a Nozzle and a   *)
(* Compressor and registers any of them under any identifier, the          *)
(* reserved 'ENGINE' included, any number of times.                        *)
(***************************************************************************)
Idents == {"ENGINE", "A", "B", "C"}

ComponentClass ==
    [i1 |-> "Intake", i2 |-> "Intake", n1 |-> "Nozzle", c1 |-> "Compressor"]

\* the class of a value of the component mapping; the entry 'ENGINE' holds
\* the attributes dictionary of the engine
ClassOf(x) == IF x \in DOMAIN kind THEN kind[x] ELSE "dict"

\* Engine.__init__
Engine_init ==
    [intake |-> "None", components |-> [i \in {"ENGINE"} |-> "attributes"],
     nozzles |-> <<>>]

\* the registry and the links at the entry of a registration
RegistryEntry ==
    [engine |-> registry, ports |-> ports, dependents |-> dependents,
     precedents |-> precedents, err |-> "none"]

\* Nozzle.connect_ambient: the ambient reference only
Nozzle_connect_ambient(r, c) == [r EXCEPT !.ports[c].ambient = "ambient"]

\* Intake.connect_ambient: the ambient reference and the link with the
\* environment
Intake_connect_ambient(r, c) ==
    [r EXCEPT !.ports[c].ambient = "ambient",
              !.precedents[c] = Append(@, "ambient"),
              !.dependents["ambient"] = Append(@, c)]

\* "if isinstance(component, Nozzle)": connect_ambient and nozzles.append
Engine_setitem_nozzle(r, c) ==
    IF kind[c] # "Nozzle" THEN r
    ELSE [Nozzle_connect_ambient(r, c) EXCEPT
              !.engine.nozzles = Append(@, c)]

\* "if isinstance(component, Intake)": assert self.intake is None, then
\* self.intake = component and connect_ambient
Engine_setitem_intake(r, c) ==
    IF kind[c] # "Intake" THEN r
    ELSE IF r.engine.intake # "None" THEN [r EXCEPT !.err = "AssertionError"]
    ELSE [Intake_connect_ambient(r, c) EXCEPT !.engine.intake = c]

\* "self.components[ident] = component"
Engine_setitem_store(r, ident, c) ==
    [r EXCEPT !.engine.components = (ident :> c) @@ @]

\* Engine.__setitem__ without the assertion on the identifier.
Engine_setitem_overwriting(r, ident, c) ==
    Engine_setitem_intake(
        Engine_setitem_nozzle(Engine_setitem_store(r, ident, c), c), c)

\* Engine.__setitem__: assert the identifier is not in use, store the
\* component, then the Nozzle and the Intake cases.
Engine_setitem(r, ident, c) ==
    IF ident \in DOMAIN r.engine.components
    THEN [r EXCEPT !.err = "AssertionError"]
    ELSE Engine_setitem_intake(
             Engine_setitem_nozzle(Engine_setitem_store(r, ident, c), c), c)

\* what a registration records of the state it starts from
RegistrySnapshot == [engine |-> registry, dependents |-> dependents]

\* Engine.__init__ and the constructors of the client's components
InitRegistry ==
    /\ kind = ("ambient" :> "Environment") @@ ComponentClass
    /\ ports = [n \in DOMAIN kind |-> NoPorts]
    /\ dependents = [n \in DOMAIN kind |-> <<>>]
    /\ precedents = [n \in DOMAIN kind |-> <<>>]
    /\ dirty = [n \in DOMAIN kind |-> TRUE]
    /\ attributes = [n \in DOMAIN kind |-> <<>>]
    /\ val = [NoVal EXCEPT !.env = [v0 |-> Fact("ambient", "v0", 0)]]
    /\ out = NoOutput
    /\ solver = NoSolver
    /\ registry = Engine_init
    /\ calls = <<>>
    /\ log = <<>>
    /\ err = "none"
    /\ lastop = [op |-> "init", node |-> "", name |-> "", value |-> 0,
                 armed |-> FALSE]
    /\ before = RegistrySnapshot

\* a public call engine[ident] = component
Register(ident, c) ==
    \E r \in {Engine_setitem(RegistryEntry, ident, c)} :
        /\ registry' = r.engine
        /\ ports' = r.ports
        /\ dependents' = r.dependents
        /\ precedents' = r.precedents
        /\ err' = r.err
        /\ lastop' = [op |-> "register", node |-> c, name |-> ident,
                      value |-> 0, armed |-> FALSE]
        /\ before' = RegistrySnapshot
        /\ UNCHANGED <<kind, dirty, attributes, val, out, solver, calls, log>>

NextRegistry ==
    \E ident \in Idents, c \in DOMAIN ComponentClass : Register(ident, c)

SpecRegistry == InitRegistry /\ [][NextRegistry]_vars

(***************************************************************************)
(* Claims about the registration, checked under SpecRegistry.              *)
(***************************************************************************)
\* the identifiers under which the component mapping holds an Intake
IntakeIdents(components) ==
    {i \in DOMAIN components : ClassOf(components[i]) = "Intake"}

\* C16: after any sequence of registrations, failed ones included, the
\* component mapping holds at most one Intake; an attempt to register a
\* second Intake fails and leaves the component mapping and the registered
\* intake unchanged.
C16_AtMostOneIntakeRegistered ==
    /\ Cardinality(IntakeIdents(registry.components)) <= 1
    /\ (/\ lastop.op = "register"
        /\ kind[lastop.node] = "Intake"
        /\ before.engine.intake # "None") =>
           /\ err = "AssertionError"
           /\ registry.components = before.engine.components
           /\ registry.intake = before.engine.intake

\* C17: a registration under an identifier that is already in use, 'ENGINE'
\* included, fails and leaves the component mapping, the nozzle list, the
\* intake and the dependents of the Environment unchanged.
C17_ReusedIdentifierRejected ==
    (lastop.op = "register"
     /\ lastop.name \in DOMAIN before.engine.components) =>
        /\ err = "AssertionError"
        /\ registry = before.engine
        /\ dependents["ambient"] = before.dependents["ambient"]

\* C17 witness: a Nozzle or an Intake is refused under an identifier in use
\* while the engine has no intake yet and holds another component.
C17_Witness ==
    /\ lastop.op = "register"
    /\ lastop.name \in DOMAIN before.engine.components
    /\ kind[lastop.node] \in {"Nozzle", "Intake"}
    /\ registry.intake = "None"
    /\ Cardinality(DOMAIN registry.components) > 1
    /\ err = "AssertionError"

(***************************************************************************)
(* Shaft configurations: a client builds a shaft with add_driven and       *)
(* add_turbine, as example3 does, over compressors and a turbine that      *)
(* each stand between two stations of their own.  It has written a mass    *)
(* flow to every inlet station and calls calculate() on the compressors    *)
(* and on the shaft.  Each component is connected to the shaft at most     *)
(* once.                                                                   *)
(***************************************************************************)
NumConsumers == 2

ConsumerNames == <<"FAN", "LPC", "HPC", "IPC">>
ConsumerInlets == <<"F0", "L0", "H0", "I0">>
ConsumerExits == <<"F1", "L1", "H1", "I1">>

Consumers == {ConsumerNames[i] : i \in 1..NumConsumers}
ShaftNodes ==
    {"SHAFT", "HPT", "T0", "T1"} \cup Consumers
        \cup {ConsumerInlets[i] : i \in 1..NumConsumers}
        \cup {ConsumerExits[i] : i \in 1..NumConsumers}

Shaft_kind ==
    [n \in ShaftNodes |->
        CASE n = "SHAFT" -> "Shaft"
          [] n = "HPT" -> "Turbine"
          [] n \in Consumers -> "Compressor"
          [] OTHER -> "Station"]

\* connect_stations of every compressor and of the turbine
Shaft_ports ==
    [n \in ShaftNodes |->
        IF n = "HPT" THEN [NoPorts EXCEPT !.inlet = "T0", !.exit = "T1"]
        ELSE IF n \in Consumers
        THEN LET i == CHOOSE k \in 1..NumConsumers : ConsumerNames[k] = n
             IN  [NoPorts EXCEPT !.inlet = ConsumerInlets[i],
                                 !.exit = ConsumerExits[i]]
        ELSE NoPorts]

Shaft_links ==
    [k \in 1..(2 * NumConsumers) |->
        LET i == (k + 1) \div 2
        IN  IF k % 2 = 1 THEN <<ConsumerInlets[i], ConsumerNames[i]>>
            ELSE <<ConsumerNames[i], ConsumerExits[i]>>]
    \o << <<"T0", "HPT">>, <<"HPT", "T1">> >>

\* the links at the entry of a connecting call
LinksEntry ==
    [ports |-> ports, dependents |-> dependents, precedents |-> precedents]

\* Shaft.add_turbine that also lists the driver among the precedents of the
\* shaft.
Shaft_add_turbine_as_consumer(r, sh, driver) ==
    [r EXCEPT !.dependents[sh] = Append(@, driver),
              !.precedents[sh] = Append(@, driver),
              !.precedents[driver] = Append(@, sh),
              !.ports[driver].shaft = sh]

\* Shaft.add_turbine: the driver becomes a dependent of the shaft, the shaft
\* a precedent of the driver, and the driver holds the shaft.
Shaft_add_turbine(r, sh, driver) ==
    [r EXCEPT !.dependents[sh] = Append(@, driver),
              !.precedents[driver] = Append(@, sh),
              !.ports[driver].shaft = sh]

\* Shaft.add_driven: the item becomes a precedent of the shaft and the shaft
\* a dependent of the item.
Shaft_add_driven(r, sh, item) ==
    [r EXCEPT !.precedents[sh] = Append(@, item),
              !.dependents[item] = Append(@, sh)]

\* the stations after Station.__init__ and the client's "stn.w = w" on the
\* inlet station of every compressor
Shaft_stations(flows) ==
    [n \in {m \in ShaftNodes : Shaft_kind[m] = "Station"} |->
        [p |-> Fact(n, "p", 0), t |-> Fact(n, "t", 0),
         w |-> IF \E i \in 1..NumConsumers : ConsumerInlets[i] = n
               THEN Rat(flows[n]) ELSE Rat(0)]]

\* the constructors, the connect_stations calls and the station writes
InitShaft ==
    /\ kind = Shaft_kind
    /\ ports = Shaft_ports
    /\ dependents = [n \in ShaftNodes |-> DependentsFrom(Shaft_links, n)]
    /\ precedents = [n \in ShaftNodes |-> PrecedentsFrom(Shaft_links, n)]
    /\ dirty = [n \in ShaftNodes |-> TRUE]
    /\ attributes = [n \in ShaftNodes |->
                        IF n \in Consumers THEN [PR |-> 30] ELSE <<>>]
    /\ \E flows \in [{ConsumerInlets[i] : i \in 1..NumConsumers} -> Values] :
          val = [NoVal EXCEPT !.stn = Shaft_stations(flows)]
    /\ out = NoOutput
    /\ solver = NoSolver
    /\ registry = NoRegistry
    /\ calls = <<>>
    /\ log = <<>>
    /\ err = "none"
    /\ lastop = [op |-> "init", node |-> "", name |-> "", value |-> 0,
                 armed |-> FALSE]
    /\ before = Unobserved

\* a call shaft.add_driven(item)
AddDriven(item) ==
    /\ item \notin Range(precedents["SHAFT"])
    /\ \E r \in {Shaft_add_driven(LinksEntry, "SHAFT", item)} :
          /\ ports' = r.ports
          /\ dependents' = r.dependents
          /\ precedents' = r.precedents
    /\ lastop' = [op |-> "add_driven", node |-> item, name |-> "",
                  value |-> 0, armed |-> FALSE]
    /\ UNCHANGED <<kind, dirty, attributes, val, out, solver, registry,
                   calls, log, err, before>>

\* a call shaft.add_turbine(driver)
AddTurbine(driver) ==
    /\ driver \notin Range(dependents["SHAFT"])
    /\ \E r \in {Shaft_add_turbine(LinksEntry, "SHAFT", driver)} :
          /\ ports' = r.ports
          /\ dependents' = r.dependents
          /\ precedents' = r.precedents
    /\ lastop' = [op |-> "add_turbine", node |-> driver, name |-> "",
                  value |-> 0, armed |-> FALSE]
    /\ UNCHANGED <<kind, dirty, attributes, val, out, solver, registry,
                   calls, log, err, before>>

\* a call component.calculate()
ComponentCalculate(n) ==
    \E s \in {calculate(Entry, n)} :
        /\ val' = s.val
        /\ log' = s.log
        /\ err' = s.err
        /\ lastop' = [op |-> "component_calculate", node |-> n, name |-> "",
                      value |-> 0, armed |-> FALSE]
        /\ UNCHANGED <<kind, ports, dependents, precedents, dirty,
                       attributes, out, solver, registry, calls, before>>

NextShaft ==
    \/ \E item \in Consumers : AddDriven(item)
    \/ AddTurbine("HPT")
    \/ \E n \in Consumers \cup {"SHAFT"} : ComponentCalculate(n)

SpecShaft == InitShaft /\ [][NextShaft]_vars

(***************************************************************************)
(* Claims about the shaft, checked under SpecShaft.                        *)
(***************************************************************************)
\* the connected consumers of a shaft, read at their own end of the link:
\* the compressors that list the shaft among their dependents
ConnectedConsumers(sh) ==
    {c \in DOMAIN kind : kind[c] = "Compressor" /\ sh \in Range(dependents[c])}

\* the shaft's calculate() has just run
ShaftCalculated ==
    lastop.op = "component_calculate" /\ kind[lastop.node] = "Shaft"

TurboFanNodes ==
    {"ambient", "INTAKE", "FAN", "SPLITTER", "HPC", "COMBUSTOR", "HPT", "LPT",
     "CNOZ", "HNOZ", "HPSHAFT", "LPSHAFT",
     "0", "1", "20", "2", "3", "4", "5", "6"}

TurboFan_kind ==
    [n \in TurboFanNodes |->
        CASE n = "ambient" -> "Environment"
          [] n = "INTAKE" -> "Intake"
          [] n \in {"FAN", "HPC"} -> "Compressor"
          [] n = "SPLITTER" -> "Splitter"
          [] n = "COMBUSTOR" -> "Combustor"
          [] n \in {"HPT", "LPT"} -> "Turbine"
          [] n \in {"CNOZ", "HNOZ"} -> "Nozzle"
          [] n \in {"HPSHAFT", "LPSHAFT"} -> "Shaft"
          [] OTHER -> "Station"]

\* the links without the bypass exit among the dependents of the splitter.
TurboFan_links_without_bypass ==
    << <<"ambient", "INTAKE">>, <<"INTAKE", "0">>,
       <<"0", "FAN">>, <<"FAN", "1">>,
       <<"1", "SPLITTER">>, <<"SPLITTER", "2">>,
       <<"20", "CNOZ">>,
       <<"2", "HPC">>, <<"HPC", "3">>,
       <<"3", "COMBUSTOR">>, <<"COMBUSTOR", "4">>,
       <<"4", "HPT">>, <<"HPT", "5">>,
       <<"5", "LPT">>, <<"LPT", "6">>,
       <<"6", "HNOZ">>,
       <<"HPSHAFT", "HPT">>, <<"HPC", "HPSHAFT">>,
       <<"LPSHAFT", "LPT">>, <<"FAN", "LPSHAFT">> >>

\* the links in the order TurboFan.__init__ makes them
TurboFan_links ==
    << <<"ambient", "INTAKE">>,                      \* Engine.__setitem__
       <<"INTAKE", "0">>,                            \* connect_downstream
       <<"0", "FAN">>, <<"FAN", "1">>,               \* connect_stations
       <<"1", "SPLITTER">>,                          \* Splitter: the inlet,
       <<"SPLITTER", "2">>, <<"SPLITTER", "20">>,    \* exit0 and exit1
       <<"20", "CNOZ">>,                             \* connect_upstream
       <<"2", "HPC">>, <<"HPC", "3">>,
       <<"3", "COMBUSTOR">>, <<"COMBUSTOR", "4">>,
       <<"4", "HPT">>, <<"HPT", "5">>,
       <<"5", "LPT">>, <<"LPT", "6">>,
       <<"6", "HNOZ">>,
       <<"HPSHAFT", "HPT">>, <<"HPC", "HPSHAFT">>,   \* add_turbine, add_driven
       <<"LPSHAFT", "LPT">>, <<"FAN", "LPSHAFT">> >>

\* the links that are recorded at both ends: all but those from a Splitter
\* to its exits
Mutual_links(k, links) == SelectSeq(links, LAMBDA l : k[l[1]] # "Splitter")

TurboFan_ports ==
    [n \in TurboFanNodes |->
        CASE n = "INTAKE" -> [NoPorts EXCEPT !.ambient = "ambient",
                                             !.exit = "0"]
          [] n = "FAN" -> [NoPorts EXCEPT !.inlet = "0", !.exit = "1"]
          [] n = "SPLITTER" -> [NoPorts EXCEPT !.inlet = "1", !.exit0 = "2",
                                               !.exit1 = "20"]
          [] n = "CNOZ" -> [NoPorts EXCEPT !.inlet = "20",
                                           !.ambient = "ambient"]
          [] n = "HPC" -> [NoPorts EXCEPT !.inlet = "2", !.exit = "3"]
          [] n = "COMBUSTOR" -> [NoPorts EXCEPT !.inlet = "3", !.exit = "4"]
          [] n = "HPT" -> [NoPorts EXCEPT !.inlet = "4", !.exit = "5",
                                          !.shaft = "HPSHAFT"]
          [] n = "LPT" -> [NoPorts EXCEPT !.inlet = "5", !.exit = "6",
                                          !.shaft = "LPSHAFT"]
          [] n = "HNOZ" -> [NoPorts EXCEPT !.inlet = "6",
                                           !.ambient = "ambient"]
          [] OTHER -> NoPorts]

\* the parameters the components are constructed with; the pressure ratio
\* 1.5 of the fan, which no call writes, is written in tenths
TurboFan_attributes ==
    [n \in TurboFanNodes |->
        CASE n = "INTAKE" -> [W |-> 1]
          [] n = "FAN" -> [PR |-> 15]
          [] n = "SPLITTER" -> [BPR |-> 8]
          [] n = "HPC" -> [PR |-> 40]
          [] n = "COMBUSTOR" -> [TEX |-> 1600, FHV |-> 45000000]
          [] OTHER -> <<>>]

\* the smallest engine: engine['INTAKE'] = Intake({'W': 1.0}),
\* engine['NOZ'] = Nozzle(), engine.connect_flows('INTAKE', 'NOZ', '1')
PlainNodes == {"ambient", "INTAKE", "NOZ", "1"}

Plain_kind ==
    [n \in PlainNodes |->
        CASE n = "ambient" -> "Environment"
          [] n = "INTAKE" -> "Intake"
          [] n = "NOZ" -> "Nozzle"
          [] OTHER -> "Station"]

Plain_links ==
    << <<"ambient", "INTAKE">>,                      \* Engine.__setitem__
       <<"INTAKE", "1">>, <<"1", "NOZ">> >>          \* Engine.connect_flows

Plain_ports ==
    [n \in PlainNodes |->
        CASE n = "INTAKE" -> [NoPorts EXCEPT !.ambient = "ambient",
                                             !.exit = "1"]
          [] n = "NOZ" -> [NoPorts EXCEPT !.inlet = "1",
                                          !.ambient = "ambient"]
          [] OTHER -> NoPorts]

Plain_attributes ==
    [n \in PlainNodes |-> IF n = "INTAKE" THEN [W |-> 1] ELSE <<>>]

\* Station.__init__ sets p, t and w to 0.0; the environment is then set to
\* (30000.0, 300.0, 1.0).
ConstructedStations(k) ==
    [n \in {m \in DOMAIN k : k[m] \in {"Station", "Environment"}} |->
        IF n = "ambient"
        THEN [p |-> Fact(n, "p", 30000), t |-> Fact(n, "t", 300),
              w |-> Rat(1)]
        ELSE [p |-> Fact(n, "p", 0), t |-> Fact(n, "t", 0), w |-> Rat(0)]]

\* the engines a client constructs
Wirings ==
    {[kind |-> TurboJet_kind, links |-> TurboJet_links,
      ports |-> TurboJet_ports, attributes |-> TurboJet_attributes],
     [kind |-> TurboFan_kind, links |-> TurboFan_links,
      ports |-> TurboFan_ports, attributes |-> TurboFan_attributes],
     [kind |-> Plain_kind, links |-> Plain_links,
      ports |-> Plain_ports, attributes |-> Plain_attributes]}

\* TurboJet.__init__, TurboFan.__init__, or the construction of the smallest
\* engine
InitAssembly ==
    /\ \E w \in Wirings :
          /\ kind = w.kind
          /\ ports = w.ports
          /\ dependents = [n \in DOMAIN w.kind |-> DependentsFrom(w.links, n)]
          /\ precedents =
                [n \in DOMAIN w.kind |->
                    PrecedentsFrom(Mutual_links(w.kind, w.links), n)]
          /\ attributes = w.attributes
    /\ dirty = [n \in DOMAIN kind |-> TRUE]
    /\ val = [NoVal EXCEPT !.stn = ConstructedStations(kind),
                           !.env = [v0 |-> Fact("ambient", "v0", 0)]]
    /\ out = NoOutput
    /\ solver = NoSolver
    /\ registry = NoRegistry
    /\ calls = <<>>
    /\ log = <<>>
    /\ err = "none"
    /\ lastop = [op |-> "init", node |-> 0, name |-> "", value |-> 0,
                 armed |-> FALSE]
    /\ before = Unobserved

\* the calls of a client: writes through the input aliases, and
\* Engine.update()
NextAssembly ==
    \/ \E alias \in DOMAIN input_aliases :
          \E value \in InputValues(alias) : SetInputAlias(alias, value)
    \/ EngineUpdate

SpecAssembly == InitAssembly /\ [][NextAssembly]_vars

(***************************************************************************)
(* Claims about Engine.update(), checked under SpecAssembly.               *)
(***************************************************************************)
\* Engine.update() has just run on the smallest engine, or on an assembly
UpdatedPlain == lastop.op = "engine_update" /\ DOMAIN kind = PlainNodes
UpdatedAssembly == lastop.op = "engine_update" /\ "HPC" \in DOMAIN kind

\* C19: on an engine that holds only an Intake connected to one Nozzle, with
\* the ambient set to (30000, 300, 1.0) and Mach 0, Engine.update()
\* completes the recomputation cycle, leaving every node fresh, and derives
\* the net thrust.
C19_IntakeNozzleUpdateCompletes ==
    UpdatedPlain =>
        /\ err = "none"
        /\ AllFresh
        /\ "THRUST" \in DOMAIN val.engine

\* every calculate() of the log comes after the calculate() of every
\* precedent of its node
PrecedentsFirst ==
    \A i \in 1..Len(log) :
        \A q \in Range(precedents[log[i].node]) : CalculatedBefore(q, i)

\* calculate() ran exactly once on every component and station
EachNodeOnce == \A n \in DOMAIN kind : Count(LogNodes(log), n) = 1

\* C20 as stated: for the TurboFan and TurboJet wirings, after any sequence
\* of input-alias writes, Engine.update() ends without an assertion
\* failure, runs calculate() exactly once on every component and station,
\* each after all of its precedents, and leaves every node fresh.
C20_UpdateAlwaysCoversEveryNode ==
    UpdatedAssembly =>
        /\ err # "AssertionError"
        /\ EachNodeOnce
        /\ PrecedentsFirst
        /\ AllFresh

\* C20: for the TurboFan and TurboJet wirings, after any sequence of
\* input-alias writes, Engine.update() never fails an assertion and never
\* runs calculate() on a node twice or before one of its precedents; when
\* no calculate() raises, it runs calculate() exactly once on every
\* component and station and leaves every node fresh; when one raises, the
\* cycle ends there, with that error.
C20_UpdateCoversEveryNodeUnlessALawRaises ==
    UpdatedAssembly =>
        /\ err \in {"none", "ZeroDivisionError"}
        /\ \A n \in DOMAIN kind : Count(LogNodes(log), n) <= 1
        /\ PrecedentsFirst
        /\ err = "none" => (EachNodeOnce /\ AllFresh)
        /\ err # "none" =>
              (~EachNodeOnce /\ kind[log[Len(log)].node] \in {"Turbine", "Splitter"})

\* C20 witness: a TurboFan cycle that completed after writes had changed the
\* pressure ratio and the temperature, in which each turbine was first
\* blocked by its shaft.
C20_Witness ==
    /\ UpdatedAssembly
    /\ "SPLITTER" \in DOMAIN kind
    /\ err = "none"
    /\ EachNodeOnce
    /\ attributes["HPC"]["PR"] # 40
    /\ attributes["COMBUSTOR"]["TEX"] # 1600
    /\ Count(calls, "HPT") = 2
    /\ Count(calls, "LPT") = 2

(***************************************************************************)
(* Further claims about the calculation network, checked under Spec.       *)
(***************************************************************************)
\* the precedents of n that were stale when update() was called on r and
\* that no chain of dependents lists leads to from r
UntriggeredPrecedents(r, n) ==
    {p \in Range(precedents[n]) :
        before.dirty[p] /\ p \notin TransitiveDependents(r)}

\* the nodes that such a precedent blocks
BlockedByUntriggered(r) ==
    {n \in Nodes : UntriggeredPrecedents(r, n) # {}}

\* update() was entered only on the root and on nodes reached from it along
\* dependents lists, and on no untriggered precedent, which stays stale
NeverTriggersAPrecedent(r) ==
    /\ Range(calls) \subseteq TransitiveDependents(r)
    /\ \A n \in Nodes : \A p \in UntriggeredPrecedents(r, n) :
          dirty[p] /\ p \notin Range(calls)

\* C21: there is no pull fallback: if a node has a stale precedent that is
\* not reachable from the propagation root, then after the root's update()
\* completes that node and every transitive dependent of it are still stale
\* and their calculate() has not run; update() never triggers a precedent.
C21_NoPullFallback ==
    (lastop.op = "update" /\ err = "none") =>
        /\ \A n \in BlockedByUntriggered(lastop.node) :
              \A m \in TransitiveDependents(n) :
                  dirty[m] /\ m \notin Range(LogNodes(log))
        /\ NeverTriggersAPrecedent(lastop.node)

\* no fresh node has a stale precedent
NoFreshNodeOnStalePrecedent ==
    \A n \in Nodes : ~dirty[n] => \A p \in Range(precedents[n]) : ~dirty[p]

\* every dependent of a stale node is stale
DependentsOfStaleAreStale ==
    \A n \in Nodes : dirty[n] => \A d \in Range(dependents[n]) : dirty[d]

\* C24: in a graph whose precedent and dependent links are mutually
\* recorded, starting from the all-stale initial state, after any sequence of
\* make_dirty(), parameter writes and update() calls no fresh node has a
\* stale precedent; equivalently, every dependent of a stale node is stale.
C24_NoFreshNodeHasStalePrecedent ==
    Mutual => NoFreshNodeOnStalePrecedent /\ DependentsOfStaleAreStale

\* C24 witness: in a mutually recorded graph, a write on a fresh component
\* that had a fresh dependent, which the write left stale, while a node
\* outside the reach of the write is still fresh.
C24_Witness ==
    /\ Mutual
    /\ lastop.op = "setitem"
    /\ err = "none"
    /\ ~before.dirty[lastop.node]
    /\ \E d \in Range(dependents[lastop.node]) : ~before.dirty[d] /\ dirty[d]
    /\ \E n \in Nodes : ~dirty[n]

(***************************************************************************)
(* The environment specification: one Environment, constructed with MACH,  *)
(* with v0 or with neither, and the calls of a client that holds it: a     *)
(* write of MACH or v0 into its attributes, an assignment of its           *)
(* temperature, and calculate().                                           *)
(***************************************************************************)
AirspeedNames == {"MACH", "v0"}
\* Station.__init__ leaves t = 0.0; the assemblies set 300.0
Temperatures == {0, 300}

\* what the caller supplies: nothing, or one of the two names with a value
Supplies ==
    {[name |-> "", value |-> 0]} \cup
    {[name |-> nm, value |-> v] : nm \in AirspeedNames, v \in Values}

\* Environment.__init__: the attributes are the dictionary of the caller
Environment_init(supplied) ==
    IF supplied.name = "" THEN <<>>
    ELSE (supplied.name :> Fact("ambient", supplied.name, supplied.value))

InitEnvironment ==
    /\ kind = [n \in {"ambient"} |-> "Environment"]
    /\ ports = [n \in {"ambient"} |-> NoPorts]
    /\ dependents = [n \in {"ambient"} |-> <<>>]
    /\ precedents = [n \in {"ambient"} |-> <<>>]
    /\ dirty = [n \in {"ambient"} |-> TRUE]
    /\ attributes = [n \in {"ambient"} |-> <<>>]
    /\ \E supplied \in Supplies :
          /\ val = [NoVal EXCEPT
                       !.stn = [n \in {"ambient"} |->
                                   [p |-> Fact(n, "p", 0),
                                    t |-> Fact(n, "t", 0), w |-> Rat(0)]],
                       !.env = Environment_init(supplied)]
          /\ lastop = [op |-> "init", node |-> "ambient",
                       name |-> supplied.name, value |-> supplied.value,
                       armed |-> FALSE]
    /\ out = NoOutput
    /\ solver = NoSolver
    /\ registry = NoRegistry
    /\ calls = <<>>
    /\ log = <<>>
    /\ err = "none"
    /\ before = Unobserved

\* the client writes environment.attributes[name] = value; lastop keeps the
\* name and the value as what the caller supplied last
SupplyAirspeed(name, value) ==
    /\ val' = [val EXCEPT !.env = (name :> Fact("ambient", name, value)) @@ @]
    /\ lastop' = [op |-> "supply", node |-> "ambient", name |-> name,
                  value |-> value, armed |-> FALSE]
    /\ calls' = <<>>
    /\ log' = <<>>
    /\ err' = "none"
    /\ before' = Unobserved
    /\ UNCHANGED <<registry, kind, ports, dependents, precedents, dirty,
                   attributes, out, solver>>

\* the client assigns environment.t = t
SetTemperature(t) ==
    /\ val' = [val EXCEPT !.stn["ambient"].t = Fact("ambient", "t", t)]
    /\ lastop' = [lastop EXCEPT !.op = "set_t"]
    /\ calls' = <<>>
    /\ log' = <<>>
    /\ err' = "none"
    /\ before' = Unobserved
    /\ UNCHANGED <<registry, kind, ports, dependents, precedents, dirty,
                   attributes, out, solver>>

\* a public call environment.calculate(); lastop keeps what the caller
\* supplied last
EnvironmentCalculate ==
    \E s \in {calculate(Entry, "ambient")} :
        /\ val' = s.val
        /\ log' = s.log
        /\ err' = s.err
        /\ calls' = <<>>
        /\ lastop' = [lastop EXCEPT !.op = "env_calculate"]
        /\ before' = [env |-> val.env]
        /\ UNCHANGED <<registry, kind, ports, dependents, precedents, dirty,
                       attributes, out, solver>>

NextEnvironment ==
    \/ \E name \in AirspeedNames, value \in Values :
          SupplyAirspeed(name, value)
    \/ \E t \in Temperatures : SetTemperature(t)
    \/ EnvironmentCalculate

SpecEnvironment == InitEnvironment /\ [][NextEnvironment]_vars

(***************************************************************************)
(* Claims about the environment, checked under SpecEnvironment.            *)
(***************************************************************************)
\* the quantity the caller supplied last, as the fact it is, and the other
\* name of the pair
Supplied == Fact("ambient", lastop.name, lastop.value)
OtherAirspeed == CHOOSE nm \in AirspeedNames : nm # lastop.name

\* C22: Environment.calculate writes exactly one of MACH and v0, the one the
\* caller did not supply, deriving it from the supplied one and the
\* temperature, and never overwrites the supplied quantity; this holds on
\* every recalculation in a sequence.  When neither is present it raises a
\* configuration error.
C22_DerivesTheOtherFromTheSupplied ==
    lastop.op = "env_calculate" =>
        IF lastop.name = ""
        THEN err = "Exception" /\ val.env = before.env
        ELSE /\ err = "none"
             /\ DOMAIN val.env = AirspeedNames
             /\ val.env[lastop.name] = Supplied
             /\ val.env[OtherAirspeed] =
                    Arith({Supplied, val.stn["ambient"].t})

(***************************************************************************)
(* Solver.generate_jacobian and Solver.next_iteration in full.  The        *)
(* wrapped object is a function of the inputs x and y with integer         *)
(* coefficients, z = a*x + b*y + c*x*y for every output z, so that a       *)
(* finite difference is divisible by its perturbation and the quotient is  *)
(* an integer.  The order in which Python lists the keys of a dictionary   *)
(* is not fixed: the order of the loop over current_values, the order xs   *)
(* of gradients.keys() and the order zs of the keys of a gradient row are  *)
(* chosen freely.  tensorsolve is the exact solution of J c = e, kept as   *)
(* numerators over the determinant.                                        *)
(***************************************************************************)
Perturbations == {1, 2}
Coefficients == [a : {1, 2}, b : {0, 1}, c : {0, 1}]
JacobianErrors == {0 - 1, 2}

\* the lists of the keys of a dictionary with key set S
KeyOrders(S) == {s \in [1..Cardinality(S) -> S] : Range(s) = S}

Input(inputs, name) == IF name \in DOMAIN inputs THEN inputs[name] ELSE 0

\* calculate(inputs) of the wrapped object: a new dictionary of outputs
wrapped_calculate(fn, inputs) ==
    [z \in DOMAIN fn |->
        fn[z].a * Input(inputs, "x") + fn[z].b * Input(inputs, "y")
            + fn[z].c * Input(inputs, "x") * Input(inputs, "y")]

\* the body of the loop of generate_jacobian for one input_name: perturb a
\* copy of current_values, evaluate, and take for every target the
\* difference to the default over the perturbation
perturb(js, defaults, g, input_name) ==
    LET perturbation == js.input_settings[input_name]
        new_values == [g.current_values EXCEPT
                          ![input_name] = @ + perturbation]
        calcd_outputs == wrapped_calculate(js.fn, new_values)
        gradient_row ==
            [z \in js.targets |->
                (calcd_outputs[z] - defaults[z]) \div perturbation]
    IN  [current_values |-> g.current_values,
         points |-> Append(g.points, new_values),
         gradients |-> (input_name :> gradient_row) @@ g.gradients]

\* the loop "for input_name in current_values" from index i on
RECURSIVE generate_jacobian_from(_, _, _, _)
generate_jacobian_from(js, defaults, g, i) ==
    IF i > Len(js.values_order) THEN g
    ELSE generate_jacobian_from(
             js, defaults, perturb(js, defaults, g, js.values_order[i]),
             i + 1)

\* Solver.generate_jacobian: the defaults are the outputs at current_values;
\* points lists the arguments of the calculate calls in order
generate_jacobian(js, current_values) ==
    generate_jacobian_from(
        js, wrapped_calculate(js.fn, current_values),
        [current_values |-> current_values, points |-> <<current_values>>,
         gradients |-> <<>>],
        1)

\* the matrix with the gradient of (x, z) at row x, column z.
jacobian_matrix_transposed(gradients, xs, zs) ==
    [i \in 1..Len(xs) |-> [j \in 1..Len(zs) |-> gradients[xs[i]][zs[j]]]]

\* "[[gradients[x][z] for x in xs] for z in zs]"
jacobian_matrix(gradients, xs, zs) ==
    [i \in 1..Len(zs) |-> [j \in 1..Len(xs) |-> gradients[xs[j]][zs[i]]]]

\* numpy.linalg.tensorsolve(a=J, b=e) for one or two unknowns: Cramer's
\* rule; the result is nums[i] / det, and a zero determinant raises
tensorsolve(J, e) ==
    IF Len(e) = 1
    THEN [det |-> J[1][1], nums |-> <<e[1]>>]
    ELSE [det |-> J[1][1] * J[2][2] - J[1][2] * J[2][1],
          nums |-> <<e[1] * J[2][2] - J[1][2] * e[2],
                     J[1][1] * e[2] - e[1] * J[2][1]>>]

\* the index of x in the list xs
IndexOf(xs, x) == CHOOSE i \in 1..Len(xs) : xs[i] = x

\* Solver.next_iteration: the gradients, the matrix, the errors in the
\* order zs, the solution, and the corrections by the position of each
\* variable in xs
Solver_next_iteration(js) ==
    LET g == generate_jacobian(js, js.values)
        J == jacobian_matrix(g.gradients, js.xs, js.zs)
        e == [i \in 1..Len(js.zs) |-> js.errors[js.zs[i]]]
        result == tensorsolve(J, e)
        s1 == [js EXCEPT !.values = g.current_values, !.points = g.points,
                         !.gradients = g.gradients, !.det = result.det]
    IN  IF result.det = 0
        THEN [s1 EXCEPT !.pc = "idle", !.outcome = "LinAlgError"]
        ELSE [s1 EXCEPT !.pc = "solved",
                        !.corrections =
                            [x \in Range(js.xs) |->
                                [num |-> result.nums[IndexOf(js.xs, x)],
                                 den |-> result.det]]]

\* "values = dict([(x,values[x]+corrections[x]) for x in values])"
add_corrections(js) ==
    [js EXCEPT !.pc = "applied",
               !.values = [x \in DOMAIN js.values |->
                              [num |-> js.values[x] * js.corrections[x].den
                                          + js.corrections[x].num,
                               den |-> js.corrections[x].den]]]

\* a Solver inside solve(), after the errors of an iterate were taken
InitJacobian ==
    /\ kind = <<>>
    /\ ports = <<>>
    /\ dependents = <<>>
    /\ precedents = <<>>
    /\ dirty = <<>>
    /\ attributes = <<>>
    /\ val = NoVal
    /\ out = NoOutput
    /\ \E isets \in (SUBSET VarNames) \ {{}} :
       \E targets \in {T \in SUBSET engine_outputs :
                          Cardinality(T) = Cardinality(isets)} :
       \E fn \in [targets -> Coefficients],
          input_settings \in [isets -> Perturbations],
          values \in [isets -> Iterates],
          errors \in [targets -> JacobianErrors],
          values_order \in KeyOrders(isets), xs \in KeyOrders(isets),
          zs \in KeyOrders(targets) :
          solver = [pc |-> "ready", input_settings |-> input_settings,
                    targets |-> targets, fn |-> fn, values |-> values,
                    errors |-> errors, values_order |-> values_order,
                    xs |-> xs, zs |-> zs, points |-> <<>>,
                    gradients |-> <<>>, det |-> 0, corrections |-> <<>>,
                    outcome |-> "none"]
    /\ registry = NoRegistry
    /\ calls = <<>>
    /\ log = <<>>
    /\ err = "none"
    /\ lastop = [op |-> "init", node |-> 0, name |-> "", value |-> 0,
                 armed |-> FALSE]
    /\ before = Unobserved

\* the call self.next_iteration(values, errors) of solve(); before keeps the
\* iterate the call was given
NextIteration ==
    /\ solver.pc = "ready"
    /\ solver' = Solver_next_iteration(solver)
    /\ before' = [values |-> solver.values]
    /\ UNCHANGED <<registry, kind, ports, dependents, precedents, dirty,
                   attributes, val, out, calls, log, err, lastop>>

\* the statement of solve() that adds the corrections to the values
AddCorrections ==
    /\ solver.pc = "solved"
    /\ solver' = add_corrections(solver)
    /\ UNCHANGED <<registry, kind, ports, dependents, precedents, dirty,
                   attributes, val, out, calls, log, err, lastop, before>>

NextJacobian ==
    \/ NextIteration
    \/ AddCorrections

SpecJacobian == InitJacobian /\ [][NextJacobian]_vars

(***************************************************************************)
(* Claims about the Jacobian, checked under SpecJacobian.                  *)
(***************************************************************************)
\* the iterate with variable x moved by its configured perturbation
PerturbedAt(x) ==
    [before.values EXCEPT ![x] = @ + solver.input_settings[x]]

\* the perturbed evaluations, one per variable, each at the iterate with
\* that variable alone moved by its perturbation, after the baseline
OnePerturbedPointPerVariable ==
    /\ Len(solver.points) = Cardinality(DOMAIN before.values) + 1
    /\ solver.points[1] = before.values
    /\ \A i \in 2..Len(solver.points) :
          /\ Cardinality({x \in DOMAIN before.values :
                             solver.points[i][x] # before.values[x]}) = 1
          /\ \E x \in DOMAIN before.values : solver.points[i] = PerturbedAt(x)
    /\ \A x \in DOMAIN before.values :
          \E i \in 2..Len(solver.points) : solver.points[i] = PerturbedAt(x)

\* the gradient of (x, z) times the perturbation of x is the difference of
\* output z between the perturbed point and the baseline
GradientsAreFiniteDifferences ==
    \A x \in DOMAIN before.values : \A z \in solver.targets :
        solver.gradients[x][z] * solver.input_settings[x] =
            wrapped_calculate(solver.fn, PerturbedAt(x))[z]
                - wrapped_calculate(solver.fn, before.values)[z]

\* the sum over the variables of gradient (x, z) times the numerator of the
\* correction of x
RECURSIVE RowTimesCorrections(_, _)
RowTimesCorrections(z, S) ==
    IF S = {} THEN 0
    ELSE LET x == CHOOSE y \in S : TRUE
         IN  solver.gradients[x][z] * solver.corrections[x].num
                 + RowTimesCorrections(z, S \ {x})

\* the corrections solve the system with the gradient of (x, z) at row z,
\* column x, and the correction of column x is that of variable x: for
\* every target z the gradients along its row times the corrections give
\* the error of z
CorrectionsSolveRowZColumnX ==
    /\ DOMAIN solver.corrections = DOMAIN before.values
    /\ \A x \in DOMAIN solver.corrections :
          solver.corrections[x].den = solver.det /\ solver.det # 0
    /\ \A z \in solver.targets :
          RowTimesCorrections(z, DOMAIN solver.corrections) =
              solver.errors[z] * solver.det

\* C23: in generate_jacobian every perturbed evaluation is made at an input
\* vector that differs from the current iterate in exactly one variable, by
\* its configured perturbation; the current iterate is not modified; the
\* gradient recorded for (x, z) is (output z at the perturbed point - output
\* z at the baseline) / perturbation of x; next_iteration places it at row z,
\* column x and assigns the solved correction of column x to variable x,
\* which solve() adds to the value of x.
C23_JacobianByOneVariablePerturbations ==
    /\ solver.pc # "ready" =>
          /\ OnePerturbedPointPerVariable
          /\ GradientsAreFiniteDifferences
          /\ solver.pc # "applied" => solver.values = before.values
    /\ solver.pc \in {"solved", "applied"} => CorrectionsSolveRowZColumnX
    /\ solver.pc = "applied" =>
          \A x \in DOMAIN before.values :
              solver.values[x] =
                  [num |-> before.values[x] * solver.det
                              + solver.corrections[x].num,
                   den |-> solver.det]

\* C23 witness: two variables with different perturbations, a matrix that
\* is not symmetric, key orders that differ between xs and the loop, and
\* corrections that were added to the values.
C23_Witness ==
    /\ solver.pc = "applied"
    /\ Cardinality(DOMAIN before.values) = 2
    /\ solver.input_settings["x"] # solver.input_settings["y"]
    /\ solver.gradients["x"]["zz"] # solver.gradients["y"]["z"]
    /\ solver.xs # solver.values_order
    /\ \E x \in DOMAIN before.values : solver.corrections[x].num # 0
====
